---- MODULE Spec2Model ----
(***************************************************************************)
(* State-machine model of the FarmScene component                          *)
(* (src/src/components/FarmScene.tsx): the mount effect, the land rebuild  *)
(* effect, the crop rebuild effect, the growth/sway animation closures,    *)
(* the render loop and the requestAnimationFrame queue.                    *)
(*                                                                         *)
(* Numbers.  Lengths are exact integers in units of 1e-7 scene units, so   *)
(* that sqrt(acres) * 208.7 * 0.055 and landSize * percentage / 100 are    *)
(* exact for the perfect-square acreages and integer percentages drawn     *)
(* here.  JavaScript's NaN and Infinity are kept as separate values.       *)
(* Arithmetic is exact (rational), not IEEE-754: rounding error of the     *)
(* order of 1e-16 is not represented.                                      *)
(***************************************************************************)
EXTENDS Integers, Sequences, FiniteSets, TLC

VARIABLES
    status,           \* "mounted" | "nocontext" | "failed" | "hung" |
                      \* "unmounted" | "threw"
    acres,            \* prop acres (a JavaScript number)
    cropAllocations,  \* prop cropAllocations
    cameraAngle,      \* useState cameraAngle
    objects,          \* every Object3D created so far, indexed by identity
    scene,            \* sceneRef.current.children, as object identities
    cropObjectsRef,   \* cropObjectsRef.current, as object identities
    closures,         \* one record per growCrops() call (its captured state)
    rafQueue,         \* callbacks registered with requestAnimationFrame
    isAnimatingRef,   \* isAnimatingRef.current
    now,              \* Date.now(), milliseconds since mount
    camera,           \* cameraRef.current.position / lookAt target
    rng,              \* position in the Math.random() stream
    disposed,         \* identities on which a dispose() has been called
    layoutRan,        \* the last crop effect run reached the layout loop
    drawn,            \* what the last renderer.render() call drew
    changes,          \* number of prop/state changes so far
    ambient,          \* cloud positions and the water shader's time uniform
    isLoading,        \* useState isLoading
    refs,             \* which refs are set, and whether the canvas is attached
    farmData,         \* Index: useState farmData (the last form submitted)
    recommendation,   \* Index: what getAIRecommendation returned for it
    landForm          \* the auto-submitting LandForm: text, timers, submits

vars == <<status, acres, cropAllocations, cameraAngle, objects, scene,
          cropObjectsRef, closures, rafQueue, isAnimatingRef, now, camera,
          rng, disposed, layoutRan, drawn, changes, ambient, isLoading, refs,
          farmData, recommendation, landForm>>

\* the state of the page around the scene
pageVars == <<farmData, recommendation, landForm>>

----------------------------------------------------------------------------
(* Bounds of the model *)

MaxChanges == 2      \* prop/state changes explored after mount
MaxTime == 3750      \* last clock value explored (ms)
MaxPlants == 1       \* grid cells modelled per crop group
MaxFrames == 2       \* animation frames delivered
MaxKeys == 3         \* change events of the land form's acres input

----------------------------------------------------------------------------
(* JavaScript numbers *)

Fin(n) == [k |-> "fin", v |-> n]
NaN == [k |-> "nan", v |-> 0]
PosInf == [k |-> "inf", v |-> 1]

IsFinite(x) == x.k = "fin"

\* !x for a number x: true for 0 and NaN
Falsy(x) == x.k = "nan" \/ (x.k = "fin" /\ x.v = 0)

Sign(n) == IF n > 0 THEN 1 ELSE IF n < 0 THEN -1 ELSE 0

\* x * (n / d) for a number x and integers n, d with d > 0
NumScale(x, n, d) ==
    CASE x.k = "nan" -> NaN
      [] x.k = "inf" -> IF n = 0 THEN NaN ELSE [k |-> "inf", v |-> x.v * Sign(n)]
      [] x.v % d = 0 -> Fin((x.v \div d) * n)
      [] OTHER -> Fin((x.v * n) \div d)

NumAdd(x, y) ==
    CASE x.k = "nan" \/ y.k = "nan" -> NaN
      [] x.k = "inf" /\ y.k = "inf" -> IF x.v = y.v THEN x ELSE NaN
      [] x.k = "inf" -> x
      [] y.k = "inf" -> y
      [] OTHER -> Fin(x.v + y.v)

RECURSIVE ISqrt(_, _)
ISqrt(n, r) == IF (r + 1) * (r + 1) > n THEN r ELSE ISqrt(n, r + 1)

\* Math.sqrt(acres) * 208.7 * 0.055, in units of 1e-7
\* (208.7 * 0.055 = 11.47850 = 114785000e-7)
LandSizeOf(a) ==
    CASE a.k = "nan" -> NaN
      [] a.k = "inf" -> IF a.v > 0 THEN PosInf ELSE NaN
      [] a.v < 0 -> NaN
      [] OTHER -> Fin(ISqrt(a.v, 0) * 2087 * 55 * 1000)

----------------------------------------------------------------------------
(* Inputs *)

Alloc(c, p) == [crop |-> c, percentage |-> p]

\* acreages a parent can pass: perfect squares, zero, and the values the
\* prop type (number) admits
AcresValues == {Fin(0), Fin(1), Fin(4), Fin(-4), NaN, PosInf}

AllocationLists ==
    { <<>>,
      <<Alloc("wheat", 100)>>,
      <<Alloc("wheat", 0), Alloc("corn", 100)>>,
      <<Alloc("corn", 60), Alloc("soybean", 30)>> }

\* successive values of Math.random(), in tenths
RandomStream == <<0, 9, 5>>

NextRng(i) == (i % Len(RandomStream)) + 1

\* what arrives together in one update (a submitted form): a positive
\* acreage and a list
BatchedAcres == {Fin(1), Fin(4)}
BatchedLists == { <<Alloc("corn", 60), Alloc("soybean", 30)>> }

FrameGaps == {1250, 2500}

----------------------------------------------------------------------------
(* Scene graph *)

Obj(name, kind, size, x, gen, crop, plants) ==
    [name |-> name, kind |-> kind, size |-> size, x |-> x, gen |-> gen,
     crop |-> crop, plants |-> plants]

EnvObj(name) == Obj(name, "env", Fin(0), Fin(0), 0, "", <<>>)

\* what the mount effect has added when the renderer is constructed
EnvBeforeRenderer == <<"sky">>

\* what it adds from there until addNaturalTreeDistribution is entered
EnvBeforeTrees == <<"light", "mountains", "ground">>

\* what addEnhancedLandscape and addRealisticClouds add after that
EnvAfterTrees == <<"tree", "water", "hill", "rock", "bush", "cloud">>

SeqToSet(s) == {s[i] : i \in DOMAIN s}

\* variant: removing a child clears the scene
SceneRemove_Clears(children, id) == <<>>

\* scene.remove(obj)
SceneRemove(children, id) == SelectSeq(children, LAMBDA c : c # id)

\* scene.getObjectByName(name): the first child with that name, 0 if none
GetObjectByName(w, name) ==
    LET hits == {i \in DOMAIN w.scene : w.objects[w.scene[i]].name = name}
    IN IF hits = {} THEN 0
       ELSE w.scene[CHOOSE i \in hits : \A j \in hits : i <= j]

\* obj.name.startsWith(prefix), for the prefixes the component uses
StartsWithCrops(o) == o.kind = "crops"

\* new THREE.X(...) followed by scene.add: the object gets a fresh identity
SceneAdd(w, o) ==
    [w EXCEPT !.objects = Append(@, o),
              !.scene = Append(@, Len(w.objects) + 1)]

----------------------------------------------------------------------------
(* Camera *)

Origin == <<Fin(0), Fin(0), Fin(0)>>

\* camera.position.set(5, 15, 25); camera.lookAt(0, 0, 0); the OrbitControls
\* built on it start with target (0, 0, 0) and save this state for reset()
InitialCamera ==
    [position |-> <<Fin(50000000), Fin(150000000), Fin(250000000)>>,
     lookAt |-> Origin,
     target |-> Origin]

\* variant: the height is left as the previous camera state had it
updateCameraPosition_KeepsHeight(cam, angle, landSize) ==
    [cam EXCEPT
        !.position =
            CASE angle = "top" ->
                    <<Fin(0), cam.position[2], Fin(10000)>>
              [] angle = "side" ->
                    <<Fin(0), cam.position[2], NumScale(landSize, 22, 10)>>
              [] OTHER ->
                    <<NumScale(landSize, 1, 1), cam.position[2],
                      NumScale(landSize, 1, 1)>>,
        !.lookAt = Origin]

updateCameraPosition(cam, angle, landSize) ==
    [cam EXCEPT
        !.position =
            CASE angle = "top" ->
                    <<Fin(0), NumScale(landSize, 22, 10), Fin(10000)>>
              [] angle = "side" ->
                    <<Fin(0), NumScale(landSize, 3, 10), NumScale(landSize, 22, 10)>>
              [] OTHER ->
                    <<NumScale(landSize, 1, 1), NumScale(landSize, 9, 10),
                      NumScale(landSize, 1, 1)>>,
        !.lookAt = Origin]

\* controls.update(): the camera is put at target + offset and turned to the
\* target.  With no pointer input pending the offset is the current one; it
\* goes through spherical coordinates, which turn an infinite offset into
\* NaN.  (The distances of the positions drawn here lie within
\* [minDistance, maxDistance] = [5, 200], so the radius clamp leaves them.)
controlsUpdate(cam) ==
    LET finite == \A i \in 1..3 : IsFinite(cam.position[i]) /\ IsFinite(cam.target[i])
    IN [cam EXCEPT !.position = IF finite THEN @ ELSE <<NaN, NaN, NaN>>,
                   !.lookAt = IF finite THEN cam.target ELSE <<NaN, NaN, NaN>>]

\* controls.reset(): target0 and position0 are restored, then update()
controlsReset(cam) ==
    controlsUpdate([cam EXCEPT !.position = InitialCamera.position,
                               !.target = InitialCamera.target])

----------------------------------------------------------------------------
(* The mutable state the effects work on, as one record *)

World ==
    [status |-> status, objects |-> objects, scene |-> scene,
     cropObjectsRef |-> cropObjectsRef, closures |-> closures,
     rafQueue |-> rafQueue, isAnimatingRef |-> isAnimatingRef,
     camera |-> camera, rng |-> rng, layoutRan |-> layoutRan,
     drawn |-> drawn, ambient |-> ambient]

Commit(w) ==
    /\ status' = w.status
    /\ objects' = w.objects
    /\ scene' = w.scene
    /\ cropObjectsRef' = w.cropObjectsRef
    /\ closures' = w.closures
    /\ rafQueue' = w.rafQueue
    /\ isAnimatingRef' = w.isAnimatingRef
    /\ camera' = w.camera
    /\ rng' = w.rng
    /\ layoutRan' = w.layoutRan
    /\ drawn' = w.drawn
    /\ ambient' = w.ambient

\* the variables of World start out as w
StartAs(w) ==
    /\ status = w.status
    /\ objects = w.objects
    /\ scene = w.scene
    /\ cropObjectsRef = w.cropObjectsRef
    /\ closures = w.closures
    /\ rafQueue = w.rafQueue
    /\ isAnimatingRef = w.isAnimatingRef
    /\ camera = w.camera
    /\ rng = w.rng
    /\ layoutRan = w.layoutRan
    /\ drawn = w.drawn
    /\ ambient = w.ambient

\* a dispose() call: on the controls, the renderer, or an object's resources
Disposal(what, id) == [what |-> what, id |-> id]

\* the crop groups in the scene with the state of their plants: what a draw
\* shows of growth and sway
GrowthState(w) ==
    [id \in {c \in SeqToSet(w.scene) : w.objects[c].kind = "crops"} |->
        w.objects[id].plants]

\* frames: draws submitted in the last frame; lands: the lands the last draw
\* showed; shown: the growth state it showed (kept while the frame runs);
\* current: that state was still the scene's when the frame ended
NoDraw == [frames |-> 0, lands |-> <<>>, shown |-> <<>>, current |-> TRUE]

\* renderer.render(scene, camera)
Render(w) ==
    [w EXCEPT !.drawn =
        [frames |-> @.frames + 1,
         lands |-> SelectSeq(w.scene, LAMBDA id : w.objects[id].kind = "land"),
         shown |-> GrowthState(w),
         current |-> TRUE]]

\* the callbacks of a frame are about to run
BeginFrame(w) == [w EXCEPT !.rafQueue = <<>>, !.drawn.frames = 0]

\* the callbacks (or the effects of the mount) have run
Settle(w) ==
    [w EXCEPT !.drawn.current = (w.drawn.frames = 0 \/ w.drawn.shown = GrowthState(w)),
              !.drawn.shown = <<>>]

----------------------------------------------------------------------------
(* Land rebuild effect: useEffect(..., [acres, cameraAngle]) *)

\* variant: the previous land is left in the scene
LandEffect_KeepsPrevious(w, a, angle) ==
    IF Falsy(a) THEN w
    ELSE LET landSize == LandSizeOf(a)
             land == Obj("land", "land", landSize, Fin(0), 0, "", <<>>)
         IN [SceneAdd(w, land) EXCEPT !.camera = updateCameraPosition(@, angle, landSize)]

LandEffect(w, a, angle) ==
    IF Falsy(a) THEN w
    ELSE LET existingLand == GetObjectByName(w, "land")
             w1 == IF existingLand # 0
                   THEN [w EXCEPT !.scene = SceneRemove(@, existingLand)]
                   ELSE w
             landSize == LandSizeOf(a)
             land == Obj("land", "land", landSize, Fin(0), 0, "", <<>>)
             w2 == SceneAdd(w1, land)
         IN [w2 EXCEPT !.camera = updateCameraPosition(@, angle, landSize)]

----------------------------------------------------------------------------
(* Rationals, for animation progress and scale *)

RECURSIVE GCD(_, _)
GCD(a, b) == IF b = 0 THEN a ELSE GCD(b, a % b)

Abs(n) == IF n < 0 THEN -n ELSE n

\* n / d in lowest terms, d > 0
Rat(n, d) ==
    LET g == GCD(Abs(n), d)
    IN [n |-> n \div g, d |-> d \div g]

Min(a, b) == IF a < b THEN a ELSE b

----------------------------------------------------------------------------
(* createEnhancedCropGroup *)

\* grid spacing per crop type, in units of 1e-7
Spacing(cropType) ==
    CASE cropType = "wheat" -> 11000000
      [] cropType = "corn" -> 28000000
      [] cropType = "soybean" -> 18000000
      [] cropType = "cotton" -> 22000000
      [] OTHER -> 20000000

\* skipChance per crop type, in hundredths
SkipChance(cropType) ==
    CASE cropType = "wheat" -> 30
      [] cropType = "corn" -> 50
      [] cropType = "soybean" -> 40
      [] cropType = "cotton" -> 45
      [] OTHER -> 50

\* Math.floor(width / spacing) as a loop bound: NaN admits no iteration
GridCount(width, spacing) ==
    IF IsFinite(width) /\ width.v > 0 THEN width.v \div spacing ELSE 0

\* the i-th value Math.random() returns from stream position r on (i = 0 is
\* the next one), and the position after n values
Draw(r, i) == RandomStream[((r - 1 + i) % Len(RandomStream)) + 1]

AdvanceRng(r, n) == ((r - 1 + n) % Len(RandomStream)) + 1

\* the plant of grid cell (col, row), from its seven random values in the
\* order the code draws them:
\*   position x, z = cell * spacing - extent / 2 + (random * 0.9 - 0.45)
\*   rotation.y = random * 2 pi                       (rotY, tenths of a turn)
\*   scale.set(baseScale, 0, baseScale), baseScale = 0.8 + random * 0.5
\*                                     (hundredths, the Y scale a rational)
\*   swaySpeed = 0.4 + random * 0.6                   (hundredths of rad/s)
\*   swayAmount = 0.05 + random * 0.12                (thousandths of rad)
\*   swayOffset = random * 2 pi                       (hundredths of rad)
NewPlant(col, row, cropType, width, depth, r) ==
    LET baseScale == 80 + 5 * Draw(r, 3)
    IN [x |-> col * Spacing(cropType) - width \div 2 + 900000 * Draw(r, 0) - 4500000,
        z |-> row * Spacing(cropType) - depth \div 2 + 900000 * Draw(r, 1) - 4500000,
        rotY |-> Draw(r, 2),
        sx |-> baseScale, sy |-> Rat(0, 1), sz |-> baseScale, base |-> baseScale,
        swaySpeed |-> 40 + 6 * Draw(r, 4),
        swayAmount |-> 50 + 12 * Draw(r, 5),
        swayOffset |-> (628 * Draw(r, 6)) \div 10,
        rotZ |-> Rat(0, 1), swayedAt |-> -1]

\* the nested col/row loops, from grid cell k (counted column by column)
\* up to cell n - 1
RECURSIVE PlantCells(_, _, _, _, _, _, _)
PlantCells(k, n, cropType, width, depth, rows, r) ==
    IF k >= n THEN [plants |-> <<>>, rng |-> r]
    ELSE LET skip == RandomStream[r] * 10 > 100 - SkipChance(cropType)
             r1 == NextRng(r)
             rest == PlantCells(k + 1, n, cropType, width, depth, rows,
                                IF skip THEN r1 ELSE AdvanceRng(r1, 7))
         IN IF skip THEN rest
            ELSE [plants |-> <<NewPlant(k \div rows, k % rows, cropType,
                                        width, depth, r1)>> \o rest.plants,
                  rng |-> rest.rng]

createEnhancedCropGroup(cropType, width, depth, r) ==
    LET cols == GridCount(width, Spacing(cropType))
        rows == GridCount(depth, Spacing(cropType))
    IN IF cols * rows = 0 THEN [plants |-> <<>>, rng |-> r]
       ELSE PlantCells(0, Min(cols * rows, MaxPlants), cropType,
                       width.v, depth.v, rows, r)

----------------------------------------------------------------------------
(* growCrops: the growth animation and the idle sway of one build *)

growDuration == 2500

\* easeOutBack(x) = 1 + c3 * (x - 1)^3 + c1 * (x - 1)^2, c1 = 1.70158, c3 = c1 + 1
easeOutBack(x) ==
    LET m == x.n - x.d
    IN Rat(100000 * x.d * x.d * x.d + 270158 * m * m * m + 170158 * m * m * x.d,
           100000 * x.d * x.d * x.d)

\* Math.sin(x) for x in hundredths of a radian, by Bhaskara's rational
\* approximation 16 p / (5 pi^2 - 4 p), p = x (pi - x) on [0, pi] (within
\* 0.002 of the sine; it is 1 exactly at pi / 2 and never exceeds 1)
Sin(x) ==
    LET y == x % 628
        h == IF y <= 314 THEN y ELSE y - 314
        q == h * (314 - h)
        s == IF y <= 314 THEN 1 ELSE -1
    IN Rat(s * 16 * q, 492980 - 4 * q)

\* variant: the amplitude is doubled
SwayRotation_Doubled(plant, t) ==
    LET sine == Sin((t * plant.swaySpeed) \div 1000 + plant.swayOffset)
    IN Rat(2 * sine.n * plant.swayAmount, sine.d)

\* time = Date.now() * 0.001;
\* Math.sin(time * swaySpeed + swayOffset) * swayAmount, in thousandths
SwayRotation(plant, t) ==
    LET sine == Sin((t * plant.swaySpeed) \div 1000 + plant.swayOffset)
    IN Rat(sine.n * plant.swayAmount, sine.d)

\* plant.rotation.z = ... at clock value t
Sway(plant, t) ==
    [plant EXCEPT !.rotZ = SwayRotation(plant, t), !.swayedAt = t]

\* the groups captured by closure c (cropGroups)
GroupsOf(w, c) == SeqToSet(w.closures[c].groups)

\* the plants of the captured groups (group.children) replaced by newPlants,
\* a function from group to its plants
SetPlants(w, newPlants) ==
    [w EXCEPT !.objects =
        [id \in DOMAIN w.objects |->
            IF id \in DOMAIN newPlants
            THEN [w.objects[id] EXCEPT !.plants = newPlants[id]]
            ELSE w.objects[id]]]

Schedule(w, fn, c) == [w EXCEPT !.rafQueue = Append(@, [fn |-> fn, c |-> c])]

\* animateSway of closure c at clock value t
animateSway(w, c, t) ==
    IF w.isAnimatingRef
    THEN [w EXCEPT !.closures[c].loop = "stopped"]
    ELSE LET swayed == [id \in GroupsOf(w, c) |->
                           [i \in DOMAIN w.objects[id].plants |->
                               Sway(w.objects[id].plants[i], t)]]
             w1 == SetPlants(w, swayed)
         IN Schedule([w1 EXCEPT !.closures[c].loop = "sway"], "sway", c)

\* variant: the sway rotation is applied whatever the progress
GrowAnimate_SwaysEarly(w, c, t) ==
    LET elapsed == t - w.closures[c].startTime
        reached == Min(elapsed, growDuration)
        easedProgress == easeOutBack(Rat(reached, growDuration))
        grow(p) == Sway([p EXCEPT !.sy = Rat(p.sx * easedProgress.n, easedProgress.d),
                                  !.sz = p.sx], t)
        grown == [id \in GroupsOf(w, c) |->
                     [i \in DOMAIN w.objects[id].plants |-> grow(w.objects[id].plants[i])]]
        w1 == [SetPlants(w, grown) EXCEPT !.closures[c].reached = reached]
    IN IF reached < growDuration
       THEN Schedule(w1, "grow", c)
       ELSE animateSway([w1 EXCEPT !.isAnimatingRef = FALSE], c, t)

\* variant: the eased progress scales all three axes
GrowAnimate_UniformScale(w, c, t) ==
    LET elapsed == t - w.closures[c].startTime
        reached == Min(elapsed, growDuration)
        easedProgress == easeOutBack(Rat(reached, growDuration))
        scaled(p) == (p.sx * easedProgress.n) \div easedProgress.d
        scale(p) == [p EXCEPT !.sx = scaled(p),
                              !.sy = Rat(p.sx * easedProgress.n, easedProgress.d),
                              !.sz = scaled(p)]
        grow(p) == IF reached = growDuration THEN Sway(scale(p), t) ELSE scale(p)
        grown == [id \in GroupsOf(w, c) |->
                     [i \in DOMAIN w.objects[id].plants |-> grow(w.objects[id].plants[i])]]
        w1 == [SetPlants(w, grown) EXCEPT !.closures[c].reached = reached]
    IN IF reached < growDuration
       THEN Schedule(w1, "grow", c)
       ELSE animateSway([w1 EXCEPT !.isAnimatingRef = FALSE], c, t)

\* variant: the loop re-registers itself whatever the progress
GrowAnimate_NeverStops(w, c, t) ==
    LET elapsed == t - w.closures[c].startTime
        reached == Min(elapsed, growDuration)
        easedProgress == easeOutBack(Rat(reached, growDuration))
        grow(p) == [p EXCEPT !.sy = Rat(p.sx * easedProgress.n, easedProgress.d),
                             !.sz = p.sx]
        grown == [id \in GroupsOf(w, c) |->
                     [i \in DOMAIN w.objects[id].plants |-> grow(w.objects[id].plants[i])]]
        w1 == [SetPlants(w, grown) EXCEPT !.closures[c].reached = reached]
    IN Schedule(w1, "grow", c)

\* the inner animate of closure c at clock value t
GrowAnimate(w, c, t) ==
    LET elapsed == t - w.closures[c].startTime
        reached == Min(elapsed, growDuration)
        progress == Rat(reached, growDuration)
        easedProgress == easeOutBack(progress)
        scale(p) == [p EXCEPT !.sy = Rat(p.sx * easedProgress.n, easedProgress.d),
                              !.sz = p.sx]
        grow(p) == IF reached = growDuration THEN Sway(scale(p), t) ELSE scale(p)
        grown == [id \in GroupsOf(w, c) |->
                     [i \in DOMAIN w.objects[id].plants |-> grow(w.objects[id].plants[i])]]
        w1 == [SetPlants(w, grown) EXCEPT !.closures[c].reached = reached]
    IN IF reached < growDuration
       THEN Schedule(w1, "grow", c)
       ELSE animateSway([w1 EXCEPT !.isAnimatingRef = FALSE], c, t)

growCrops(w, t) ==
    LET cropGroups == SelectSeq(w.cropObjectsRef,
                                LAMBDA id : StartsWithCrops(w.objects[id]))
        closure == [groups |-> cropGroups, startTime |-> t, reached |-> 0,
                    loop |-> "grow"]
        w1 == [w EXCEPT !.isAnimatingRef = TRUE,
                        !.closures = Append(@, closure)]
    IN GrowAnimate(w1, Len(w1.closures), t)

----------------------------------------------------------------------------
(* Crop rebuild effect: useEffect(..., [acres, cropAllocations]) *)

\* scene.add(obj); cropObjectsRef.current.push(obj)
AddCropObject(w, o) ==
    LET w1 == SceneAdd(w, o)
    IN [w1 EXCEPT !.cropObjectsRef = Append(@, Len(w1.objects))]

\* if (allocation.percentage <= 0) return
SkipsEntry(allocation) == allocation.percentage <= 0

\* variant: the width is rounded down to whole scene units
SectionWidth_Floored(landSize, percentage) ==
    LET exact == NumScale(landSize, percentage, 100)
    IN IF IsFinite(exact) THEN Fin((exact.v \div 10000000) * 10000000) ELSE exact

\* sectionWidth = landSize * (allocation.percentage / 100)
SectionWidth(landSize, percentage) == NumScale(landSize, percentage, 100)

\* position.set(currentX + sectionWidth / 2, ...)
SectionCentre(currentX, sectionWidth) ==
    NumAdd(currentX, NumScale(sectionWidth, 1, 2))

\* variant: the cursor is not advanced
AdvanceCursor_Stuck(currentX, sectionWidth) == currentX

\* currentX += sectionWidth
AdvanceCursor(currentX, sectionWidth) == NumAdd(currentX, sectionWidth)

\* cropAllocations.forEach(...), from entry i on, with the running cursor currentX
RECURSIVE LayoutLoop(_, _, _, _, _)
LayoutLoop(w, allocs, i, landSize, currentX) ==
    IF i > Len(allocs) THEN w
    ELSE IF SkipsEntry(allocs[i])
    THEN LayoutLoop(w, allocs, i + 1, landSize, currentX)
    ELSE
      LET gen == Len(w.closures) + 1
          sectionWidth == SectionWidth(landSize, allocs[i].percentage)
          centre == SectionCentre(currentX, sectionWidth)
          plot == Obj("plot", "plot", sectionWidth, centre, gen, allocs[i].crop, <<>>)
          w1 == AddCropObject(w, plot)
      IN IF landSize = PosInf
         THEN \* cols and rows are Infinity: the grid loops never terminate
              [w1 EXCEPT !.status = "hung"]
         ELSE
           LET made == createEnhancedCropGroup(allocs[i].crop, sectionWidth,
                                               landSize, w.rng)
               cropGroup == Obj("crops", "crops", sectionWidth, centre, gen,
                                allocs[i].crop, made.plants)
               w2 == [AddCropObject(w1, cropGroup) EXCEPT !.rng = made.rng]
           IN LayoutLoop(w2, allocs, i + 1, landSize,
                         AdvanceCursor(currentX, sectionWidth))

CropEffect(w, a, allocs, t) ==
    IF Falsy(a) \/ Len(allocs) = 0 THEN [w EXCEPT !.layoutRan = FALSE]
    ELSE
      LET existingCrops == {id \in SeqToSet(w.cropObjectsRef) :
                               StartsWithCrops(w.objects[id])}
          w1 == [w EXCEPT !.scene = SelectSeq(@, LAMBDA id : id \notin existingCrops),
                          !.cropObjectsRef = <<>>]
          land == GetObjectByName(w1, "land")
      IN IF land = 0 THEN [w1 EXCEPT !.layoutRan = FALSE]
         ELSE
           LET landSize == w1.objects[land].size
               w2 == LayoutLoop(w1, allocs, 1, landSize, NumScale(landSize, -1, 2))
           IN IF w2.status = "hung" THEN w2
              ELSE growCrops([w2 EXCEPT !.layoutRan = TRUE], t)

----------------------------------------------------------------------------
(* Render loop and the animation-frame queue *)

\* what addRealisticClouds and addRealisticWaterFeature have set up: the x
\* position and userData.speed of each cloud and uniforms.time, in hundredths
\* (x = cos(angle) * distance in [-1000, 1000], speed in [0.05, 0.2])
CloudStarts == << [x |-> 99980, speed |-> 15], [x |-> -50000, speed |-> 5] >>

NoAmbient == [clouds |-> <<>>, time |-> 0]

\* child.position.x += speed; if (child.position.x > 1000) child.position.x = -1000
MoveCloud(cloud) ==
    LET x == cloud.x + cloud.speed
    IN [cloud EXCEPT !.x = IF x > 100000 THEN -100000 ELSE x]

\* the mount effect's animate: re-registers itself, updates the controls,
\* the clouds and the water, then draws
RenderAnimate(w) ==
    LET w1 == Schedule(w, "render", 0)
        w2 == [w1 EXCEPT !.camera = controlsUpdate(@)]
        w3 == [w2 EXCEPT !.ambient.clouds =
                  [i \in DOMAIN @ |->
                      IF ~w2.isAnimatingRef THEN MoveCloud(@[i]) ELSE @[i]]]
        w4 == [w3 EXCEPT !.ambient.time = @ + 1]
    IN Render(w4)

RunCallback(w, cb, t) ==
    CASE cb.fn = "render" -> RenderAnimate(w)
      [] cb.fn = "grow" -> GrowAnimate(w, cb.c, t)
      [] OTHER -> animateSway(w, cb.c, t)

\* one animation frame: the callbacks registered before it run in order
RECURSIVE RunFrame(_, _, _)
RunFrame(w, queue, t) ==
    IF queue = <<>> THEN w
    ELSE RunFrame(RunCallback(w, Head(queue), t), Tail(queue), t)

----------------------------------------------------------------------------
(* The page around the scene: the recommendation and the land form *)

\* the variables of the scene component
sceneVars == <<status, acres, cropAllocations, cameraAngle, objects, scene,
               cropObjectsRef, closures, rafQueue, isAnimatingRef, now, camera,
               rng, disposed, layoutRan, drawn, changes, ambient, isLoading,
               refs>>

\* one number per crop.  Percentages and suitability scores are kept in
\* halves (50 stands for 25) until they are normalised, so that the factors
\* 1.5, 2.5 and 0.5 stay exact for whole-number temperature and rainfall.
PerCrop(w, c, s, k) == [wheat |-> w, corn |-> c, soybean |-> s, cotton |-> k]

PlusPerCrop(a, b) ==
    PerCrop(a.wheat + b.wheat, a.corn + b.corn, a.soybean + b.soybean,
            a.cotton + b.cotton)

Doubled(a) == PlusPerCrop(a, a)

Max(a, b) == IF a > b THEN a ELSE b

\* let wheatPercent = 25 ...; let wheatSuitability = 50 ...
BasePercent == Doubled(PerCrop(25, 25, 25, 25))
BaseSuitability == Doubled(PerCrop(50, 50, 50, 50))

SoilPercent(soilType) ==
    CASE soilType \in {"sandy", "sandyLoam"} -> Doubled(PerCrop(-15, 5, -5, 15))
      [] soilType \in {"clay", "clayLoam"} -> Doubled(PerCrop(15, -10, 10, -15))
      [] soilType \in {"silty", "siltLoam"} -> Doubled(PerCrop(-5, 15, 10, -20))
      [] soilType = "peaty" -> Doubled(PerCrop(-10, 5, 15, -10))
      [] soilType = "loam" -> Doubled(PerCrop(0, 5, 5, -10))
      [] OTHER -> PerCrop(0, 0, 0, 0)

SoilSuitability(soilType) ==
    CASE soilType \in {"sandy", "sandyLoam"} -> Doubled(PerCrop(-15, 10, -5, 25))
      [] soilType \in {"clay", "clayLoam"} -> Doubled(PerCrop(20, -20, 15, -15))
      [] soilType \in {"silty", "siltLoam"} -> Doubled(PerCrop(-5, 25, 20, -15))
      [] soilType = "peaty" -> Doubled(PerCrop(-10, 5, 10, -15))
      [] soilType = "loam" -> Doubled(PerCrop(10, 15, 15, 5))
      [] OTHER -> PerCrop(0, 0, 0, 0)

\* one crop's adjustment for a reading x against its optimal range lo..hi:
\* below the range `below` halves per unit, above it `above` halves per unit,
\* each capped (a cap of 0 is no cap); inside the range the bonus
RangeAdjust(x, lo, hi, below, capBelow, above, capAbove, bonus) ==
    LET capped(v, cap) == IF cap = 0 THEN v ELSE Min(cap, v)
    IN IF x < lo THEN -capped((lo - x) * below, capBelow)
       ELSE IF x > hi THEN -capped((x - hi) * above, capAbove)
       ELSE bonus

TemperaturePercent(t) ==
    PerCrop(RangeAdjust(t, 55, 75, 3, 30, 3, 30, 20),
            RangeAdjust(t, 65, 85, 3, 30, 2, 30, 20),
            RangeAdjust(t, 68, 86, 3, 30, 2, 30, 20),
            RangeAdjust(t, 75, 95, 4, 50, 1, 20, 30))

TemperatureSuitability(t) ==
    PerCrop(RangeAdjust(t, 55, 75, 4, 0, 4, 0, 30),
            RangeAdjust(t, 65, 85, 4, 0, 3, 0, 30),
            RangeAdjust(t, 68, 86, 4, 0, 3, 0, 30),
            RangeAdjust(t, 75, 95, 5, 0, 2, 0, 40))

RainfallPercent(r) ==
    PerCrop(RangeAdjust(r, 12, 35, 4, 30, 3, 30, 10),
            RangeAdjust(r, 20, 40, 5, 50, 2, 30, 20),
            RangeAdjust(r, 20, 45, 4, 40, 2, 30, 20),
            RangeAdjust(r, 15, 35, 4, 40, 3, 30, 20))

RainfallSuitability(r) ==
    PerCrop(RangeAdjust(r, 12, 35, 6, 0, 4, 0, 20),
            RangeAdjust(r, 20, 40, 8, 0, 3, 0, 30),
            RangeAdjust(r, 20, 45, 6, 0, 3, 0, 30),
            RangeAdjust(r, 15, 35, 6, 0, 4, 0, 30))

AcresPercent(a) ==
    Doubled(IF a < 5 THEN PerCrop(-5, 5, 10, -10)
            ELSE IF a < 20 THEN PerCrop(-5, 5, 5, -5)
            ELSE IF a < 50 THEN PerCrop(0, 0, 0, 0)
            ELSE IF a < 100 THEN PerCrop(5, 0, 0, -5)
            ELSE IF a < 300 THEN PerCrop(10, 5, -5, -10)
            ELSE PerCrop(5, 10, -5, -10))

AcresSuitability(a) ==
    Doubled(IF a < 5 THEN PerCrop(-5, 5, 10, 0)
            ELSE IF a < 20 THEN PerCrop(0, 5, 5, 0)
            ELSE IF a < 50 THEN PerCrop(0, 0, 0, 0)
            ELSE IF a < 100 THEN PerCrop(5, 0, 0, 0)
            ELSE IF a < 300 THEN PerCrop(10, 5, 0, 0)
            ELSE PerCrop(10, 10, 0, 0))

\* Math.max(0, Math.min(100, x)), in halves
Clamp100(x) == Max(0, Min(200, x))

\* the five contributions to one crop's variable added up
Sum5(base, soil, temperature, rainfall, size) ==
    PerCrop(base.wheat + soil.wheat + temperature.wheat + rainfall.wheat
                + size.wheat,
            base.corn + soil.corn + temperature.corn + rainfall.corn + size.corn,
            base.soybean + soil.soybean + temperature.soybean + rainfall.soybean
                + size.soybean,
            base.cotton + soil.cotton + temperature.cotton + rainfall.cotton
                + size.cotton)

\* the four suitability scores after clamping
Suitability(d) ==
    LET raw == Sum5(BaseSuitability, SoilSuitability(d.soilType),
                    TemperatureSuitability(d.temperature),
                    RainfallSuitability(d.rainfall), AcresSuitability(d.acres))
    IN PerCrop(Clamp100(raw.wheat), Clamp100(raw.corn), Clamp100(raw.soybean),
               Clamp100(raw.cotton))

\* if (suitability < 20) percent = Math.max(0, percent - 20)
ReduceUnsuitable(percent, suitability) ==
    IF suitability < 40 THEN Max(0, percent - 40) ELSE percent

\* the four percentages before the random variation
AdjustedPercent(d) ==
    LET raw == Sum5(BasePercent, SoilPercent(d.soilType),
                    TemperaturePercent(d.temperature),
                    RainfallPercent(d.rainfall), AcresPercent(d.acres))
        s == Suitability(d)
    IN PerCrop(ReduceUnsuitable(raw.wheat, s.wheat),
               ReduceUnsuitable(raw.corn, s.corn),
               ReduceUnsuitable(raw.soybean, s.soybean),
               ReduceUnsuitable(raw.cotton, s.cotton))

randomFactor == 3

\* randomizePercent: Math.floor(Math.random() * randomFactor * 2) - randomFactor
\* added and clamped; draw is the Math.random() result in tenths
randomizePercent(basePercent, draw) ==
    LET variation == (draw * randomFactor * 2) \div 10 - randomFactor
    IN Clamp100(basePercent + 2 * variation)

\* Math.round(percent * (100 / total)): the quotient rounded half up
Normalize(percent, total) == (200 * percent + total) \div (2 * total)

\* suitabilities.sort((a, b) => b.value - a.value)[0].crop: the sort is
\* stable, so of equal scores the one listed first wins
mostSuitableCrop(s) ==
    IF s.wheat >= s.corn /\ s.wheat >= s.soybean /\ s.wheat >= s.cotton
        THEN "wheat"
    ELSE IF s.corn >= s.soybean /\ s.corn >= s.cotton THEN "corn"
    ELSE IF s.soybean >= s.cotton THEN "soybean"
    ELSE "cotton"

\* wheatPercent = randomizePercent(wheatPercent) ... for the four draws
RandomizedPercent(d, draws) ==
    PerCrop(randomizePercent(AdjustedPercent(d).wheat, draws[1]),
            randomizePercent(AdjustedPercent(d).corn, draws[2]),
            randomizePercent(AdjustedPercent(d).soybean, draws[3]),
            randomizePercent(AdjustedPercent(d).cotton, draws[4]))

\* normalisation to whole percentages and the rounding error added to the
\* crop `best`
NormalizedAllocation(varied, best) ==
    LET total == varied.wheat + varied.corn + varied.soybean + varied.cotton
        normal == IF total <= 0 THEN PerCrop(25, 25, 25, 25)
                  ELSE PerCrop(Normalize(varied.wheat, total),
                               Normalize(varied.corn, total),
                               Normalize(varied.soybean, total),
                               Normalize(varied.cotton, total))
        roundingError == 100 - (normal.wheat + normal.corn + normal.soybean
                                + normal.cotton)
        plus(crop) == IF crop = best THEN roundingError ELSE 0
    IN << Alloc("wheat", normal.wheat + plus("wheat")),
          Alloc("corn", normal.corn + plus("corn")),
          Alloc("soybean", normal.soybean + plus("soybean")),
          Alloc("cotton", normal.cotton + plus("cotton")) >>

\* The allocation returned for the form data d when the four calls of
\* Math.random() in randomizePercent return draws (tenths), as the list of
\* crops and whole percentages; the economic fields of each entry are not
\* modelled.  (The randomized percentages and the most suitable crop are
\* bound as values, so that each is computed once.)
getAIRecommendation(d, draws) ==
    CHOOSE allocation \in
        { NormalizedAllocation(varied, best) :
              varied \in {RandomizedPercent(d, draws)},
              best \in {mostSuitableCrop(Suitability(d))} } : TRUE

\* LandForm's initial formData (the location field is left out)
InitialFarmData ==
    [acres |-> 50, soilType |-> "loam", temperature |-> 70, rainfall |-> 30]

\* what the form lets through: acres > 0, a soil type of the list,
\* temperature within min..max of its input, rainfall within min..max
FarmInputs ==
    [acres : {1, 50, 400}, soilType : {"loam", "sandy", "chalky"},
     temperature : {32, 70, 120}, rainfall : {0, 18, 30}]

\* the results Math.random() can give, in tenths
RandomTenths == SeqToSet(RandomStream)

\* handleLandSubmit's setFarmData(formData) and getAIRecommendation(formData),
\* for the first form submitted (the function does not depend on what was
\* submitted before)
Recommend(formData, draws) ==
    /\ recommendation = <<>>
    /\ farmData' = formData
    /\ recommendation' = getAIRecommendation(formData, draws)
    /\ UNCHANGED <<sceneVars, landForm>>

\* the auto-submitting LandForm: the text of the acres input, the
\* setTimeout callbacks not yet run (each with the acreValue it captured,
\* oldest first: all have the same delay), the arguments onSubmit has been
\* called with, and the number of change events so far
InitialLandForm == [acres |-> <<>>, timers |-> <<>>, submitted |-> <<>>, keys |-> 0]

\* the characters typed into the input
KeyChars == {"0", "5"}

DigitOf(ch) == CASE ch = "0" -> 0 [] ch = "5" -> 5

\* the value of a run of digits
RECURSIVE DigitsValue(_)
DigitsValue(text) ==
    IF text = <<>> THEN 0
    ELSE 10 * DigitsValue(SubSeq(text, 1, Len(text) - 1)) + DigitOf(text[Len(text)])

\* parseFloat(value) for the texts a number input holds here
parseFloat(text) == IF text = <<>> THEN NaN ELSE Fin(DigitsValue(text))

\* the texts one more keystroke can leave in the input: a character added,
\* or the last one deleted
NextTexts(text) ==
    {Append(text, ch) : ch \in KeyChars}
        \cup (IF text = <<>> THEN {} ELSE {SubSeq(text, 1, Len(text) - 1)})

\* if (!isNaN(acreValue) && acreValue > 0) setTimeout(..., 800); the function
\* the handler returns is dropped by React, so no timer is ever cleared
AutoSubmitTimers(timers, acreValue) ==
    IF acreValue.k # "nan" /\ acreValue.k = "fin" /\ acreValue.v > 0
    THEN Append(timers, acreValue.v) ELSE timers

\* onChange of the acres input
handleAcreChange(value) ==
    /\ landForm.keys < MaxKeys
    /\ landForm' = [landForm EXCEPT
                       !.acres = value,
                       !.timers = AutoSubmitTimers(@, parseFloat(value)),
                       !.keys = @ + 1]
    /\ UNCHANGED <<sceneVars, farmData, recommendation>>

\* the oldest pending timer runs: onSubmit(acreValue)
TimeoutFires ==
    /\ landForm.timers # <<>>
    /\ landForm' = [landForm EXCEPT !.timers = Tail(@),
                                    !.submitted = Append(@, Head(landForm.timers))]
    /\ UNCHANGED <<sceneVars, farmData, recommendation>>

----------------------------------------------------------------------------
(* Mount effect: useEffect(..., []) and the first run of the other effects *)

\* props at mount: before any form was submitted, or after one
InitialProps ==
    { [acres |-> Fin(0), cropAllocations |-> <<>>],
      [acres |-> Fin(4), cropAllocations |-> <<Alloc("wheat", 100)>>] }

EmptyWorld(r) ==
    [status |-> "mounted", objects |-> <<>>, scene |-> <<>>,
     cropObjectsRef |-> <<>>, closures |-> <<>>, rafQueue |-> <<>>,
     isAnimatingRef |-> FALSE, camera |-> InitialCamera, rng |-> r,
     layoutRan |-> FALSE, drawn |-> NoDraw, ambient |-> NoAmbient]

RECURSIVE AddEnvironment(_, _)
AddEnvironment(w, names) ==
    IF names = <<>> THEN w
    ELSE AddEnvironment(SceneAdd(w, EnvObj(Head(names))), Tail(names))

\* sceneRef, cameraRef, rendererRef, controlsRef hold an object; the canvas
\* is a child of the container
NoRefs ==
    [scene |-> FALSE, camera |-> FALSE, renderer |-> FALSE, controls |-> FALSE,
     canvas |-> FALSE]

\* the mount effect up to `new THREE.WebGLRenderer(...)`: the scene with its
\* sky and the camera exist and sceneRef, cameraRef are set
MountScene(r) == AddEnvironment(EmptyWorld(r), EnvBeforeRenderer)

RefsBeforeRenderer == [NoRefs EXCEPT !.scene = TRUE, !.camera = TRUE]

\* the mount effect up to the call of addNaturalTreeDistribution
MountBegin(r) == AddEnvironment(MountScene(r), EnvBeforeTrees)

RefsMounted ==
    [scene |-> TRUE, camera |-> TRUE, renderer |-> TRUE, controls |-> TRUE,
     canvas |-> TRUE]

\* the rest of the mount effect: environment, animate(), setIsLoading(false)
MountEnd(w) ==
    RenderAnimate([AddEnvironment(w, EnvAfterTrees) EXCEPT
                      !.ambient = [clouds |-> CloudStarts, time |-> 0]])

\* The WebGLRenderer constructor throws when no WebGL context can be had;
\* nothing in the effect catches it.
\* `const spread = spread = ...` in addNaturalTreeDistribution reads the
\* binding in its temporal dead zone: a build that keeps `const` throws a
\* ReferenceError there and the effect ends; a build that lowers it to `var`
\* runs on.  Both outcomes are kept.
InitWith(props, seeds) ==
    /\ \E p \in props : acres = p.acres /\ cropAllocations = p.cropAllocations
    /\ cameraAngle = "angled"
    /\ now = 0
    /\ disposed = {}
    /\ changes = 0
    /\ farmData = InitialFarmData
    /\ recommendation = <<>>
    /\ landForm = InitialLandForm
    /\ \E r \in seeds :
         \/ /\ StartAs([MountScene(r) EXCEPT !.status = "nocontext"])
            /\ isLoading = TRUE
            /\ refs = RefsBeforeRenderer
         \/ /\ StartAs([MountBegin(r) EXCEPT !.status = "failed"])
            /\ isLoading = TRUE
            /\ refs = RefsMounted
         \/ /\ StartAs(Settle(CropEffect(LandEffect(MountEnd(MountBegin(r)),
                                                   acres, cameraAngle),
                                        acres, cropAllocations, now)))
            /\ isLoading = FALSE
            /\ refs = RefsMounted

\* where in the stream the first crop build finds Math.random()
InitialSeeds == {1}

Init == InitWith(InitialProps, InitialSeeds)

----------------------------------------------------------------------------
(* Operations *)

Running == status = "mounted" /\ changes < MaxChanges

\* the parent re-renders with a new acres prop
ChangeAcres(a) ==
    /\ Running
    /\ a # acres
    /\ acres' = a
    /\ changes' = changes + 1
    /\ Commit(CropEffect(LandEffect(World, a, cameraAngle), a, cropAllocations, now))
    /\ UNCHANGED <<pageVars, cropAllocations, cameraAngle, now, disposed, isLoading, refs>>

\* the parent re-renders with a new cropAllocations array
ChangeAllocations(l) ==
    /\ Running
    /\ cropAllocations' = l
    /\ changes' = changes + 1
    /\ Commit(CropEffect(World, acres, l, now))
    /\ UNCHANGED <<pageVars, acres, cameraAngle, now, disposed, isLoading, refs>>

\* variant: the crop effect runs before the land effect
ChangeBoth_CropsFirst(a, l) ==
    /\ Running
    /\ a # acres
    /\ acres' = a
    /\ cropAllocations' = l
    /\ changes' = changes + 1
    /\ Commit(LandEffect(CropEffect(World, a, l, now), a, cameraAngle))
    /\ UNCHANGED <<pageVars, cameraAngle, now, disposed, isLoading, refs>>

\* the parent re-renders with both props new (one batched update)
ChangeBoth(a, l) ==
    /\ Running
    /\ a # acres
    /\ acres' = a
    /\ cropAllocations' = l
    /\ changes' = changes + 1
    /\ Commit(CropEffect(LandEffect(World, a, cameraAngle), a, l, now))
    /\ UNCHANGED <<pageVars, cameraAngle, now, disposed, isLoading, refs>>

NextAngle(prev) ==
    CASE prev = "angled" -> "top"
      [] prev = "top" -> "side"
      [] prev = "side" -> "angled"
      [] OTHER -> "angled"

toggleCameraAngle ==
    /\ Running
    /\ cameraAngle' = NextAngle(cameraAngle)
    /\ changes' = changes + 1
    /\ Commit(LandEffect(World, acres, NextAngle(cameraAngle)))
    /\ UNCHANGED <<pageVars, acres, cropAllocations, now, disposed, isLoading, refs>>

\* variant: the reset always frames the default size
ResetLandSize_Default(a) == Fin(100000000)

\* acres ? Math.sqrt(acres) * 208.7 * 0.055 : 10
ResetLandSize(a) == IF Falsy(a) THEN Fin(100000000) ELSE LandSizeOf(a)

\* variant: only the controls are reset
ResetView_ControlsOnly(cam, a, angle) == controlsReset(cam)

\* controls.reset(); updateCameraPosition(...)
ResetView(cam, a, angle) ==
    updateCameraPosition(controlsReset(cam), angle, ResetLandSize(a))

resetCamera ==
    /\ status = "mounted"
    /\ refs.controls /\ refs.camera
    /\ camera' = ResetView(camera, acres, cameraAngle)
    /\ UNCHANGED <<pageVars, status, acres, cropAllocations, cameraAngle, objects, scene,
                   cropObjectsRef, closures, rafQueue, isAnimatingRef, now,
                   rng, disposed, layoutRan, drawn, changes, ambient,
                   isLoading, refs>>

\* where pointer input can leave the camera: rotated and zoomed about the
\* origin, or panned (position and target shifted alike)
UserViews ==
    { [position |-> <<Fin(-250000000), Fin(150000000), Fin(50000000)>>,
       target |-> Origin],
      [position |-> <<Fin(150000000), Fin(150000000), Fin(250000000)>>,
       target |-> <<Fin(100000000), Fin(0), Fin(0)>>] }

\* the user drags or scrolls on the canvas: the OrbitControls handlers move
\* the camera and turn it to the target (the pointer is taken to be at rest
\* on release, so no damped motion is left over)
Orbit(u) ==
    /\ status = "mounted"
    /\ camera' = [position |-> u.position, lookAt |-> u.target, target |-> u.target]
    /\ UNCHANGED <<pageVars, status, acres, cropAllocations, cameraAngle, objects, scene,
                   cropObjectsRef, closures, rafQueue, isAnimatingRef, now,
                   rng, disposed, layoutRan, drawn, changes, ambient,
                   isLoading, refs>>

\* the clock advances between frames (it is taken not to be set back)
Tick(dt) ==
    /\ status \in {"mounted", "unmounted"}
    /\ now + dt <= MaxTime
    /\ now' = now + dt
    /\ UNCHANGED <<pageVars, status, acres, cropAllocations, cameraAngle, objects, scene,
                   cropObjectsRef, closures, rafQueue, isAnimatingRef, camera,
                   rng, disposed, layoutRan, drawn, changes, ambient,
                   isLoading, refs>>

\* the browser delivers an animation frame
Frame ==
    /\ status \in {"mounted", "unmounted"}
    /\ rafQueue # <<>>
    /\ ambient.time <= MaxFrames
    /\ Commit(Settle(RunFrame(BeginFrame(World), rafQueue, now)))
    /\ UNCHANGED <<pageVars, acres, cropAllocations, cameraAngle, now, disposed, changes,
                   isLoading, refs>>

\* containerRef.current.removeChild(canvas) raises NotFoundError when the
\* canvas is not a child of the container
RemoveChildThrows(refAttached) == refAttached /\ refs.renderer /\ ~refs.canvas

\* what the cleanup function has disposed of when it returns or throws
CleanupDisposals(refAttached) ==
    (IF refs.controls THEN {Disposal("controls", 0)} ELSE {})
        \cup (IF refAttached /\ refs.renderer /\ refs.canvas
              THEN {Disposal("renderer", 0)} ELSE {})

\* the mount effect's cleanup.  On a real unmount React has detached
\* containerRef before it runs (refAttached = FALSE); when it is run with the
\* element still in place the ref is attached
Unmount(refAttached) ==
    /\ status = "mounted"
    /\ status' = IF RemoveChildThrows(refAttached) THEN "threw" ELSE "unmounted"
    /\ disposed' = disposed \cup CleanupDisposals(refAttached)
    /\ refs' = [refs EXCEPT !.canvas = @ /\ ~(refAttached /\ refs.renderer)]
    /\ UNCHANGED <<pageVars, acres, cropAllocations, cameraAngle, objects, scene,
                   cropObjectsRef, closures, rafQueue, isAnimatingRef, now,
                   camera, rng, layoutRan, drawn, changes, ambient, isLoading>>

\* the same cleanup function called once more
CleanupAgain(refAttached) ==
    /\ status = "unmounted"
    /\ status' = IF RemoveChildThrows(refAttached) THEN "threw" ELSE "unmounted"
    /\ disposed' = disposed \cup CleanupDisposals(refAttached)
    /\ refs' = [refs EXCEPT !.canvas = @ /\ ~(refAttached /\ refs.renderer)]
    /\ UNCHANGED <<pageVars, acres, cropAllocations, cameraAngle, objects, scene,
                   cropObjectsRef, closures, rafQueue, isAnimatingRef, now,
                   camera, rng, layoutRan, drawn, changes, ambient, isLoading>>

Next ==
    \/ \E a \in AcresValues : ChangeAcres(a)
    \/ \E l \in AllocationLists : ChangeAllocations(l)
    \/ \E a \in BatchedAcres, l \in BatchedLists : ChangeBoth(a, l)
    \/ toggleCameraAngle
    \/ \E dt \in FrameGaps : Tick(dt)
    \/ Frame
    \/ Unmount(FALSE)

Spec == Init /\ [][Next]_vars

----------------------------------------------------------------------------
(* The crop layout on its own, over a wider range of lists and acreages *)

ScenarioA ==
    <<Alloc("wheat", 30), Alloc("corn", 40), Alloc("soybean", 20),
      Alloc("cotton", 10)>>

SparseList ==
    <<Alloc("cotton", 50), Alloc("wheat", 0), Alloc("soybean", -10),
      Alloc("cotton", 20)>>

LayoutLists ==
    { <<>>,
      ScenarioA,
      <<Alloc("wheat", 0), Alloc("corn", 100)>>,
      <<Alloc("corn", 60), Alloc("soybean", 60)>>,
      <<Alloc("wheat", 30)>>,
      SparseList }

LayoutAcres == {Fin(1), Fin(4), Fin(9)}

LayoutInitialProps == { [acres |-> Fin(1), cropAllocations |-> ScenarioA] }

InitLayout == InitWith(LayoutInitialProps, DOMAIN RandomStream)

NextLayout ==
    \/ \E a \in LayoutAcres : ChangeAcres(a)
    \/ \E l \in LayoutLists : ChangeAllocations(l)

SpecLayout == InitLayout /\ [][NextLayout]_vars

----------------------------------------------------------------------------
(* The camera on its own: view switches, reset and pointer input *)

CameraAcres == {Fin(0), Fin(1), Fin(4)}

NextCamera ==
    \/ \E a \in CameraAcres : ChangeAcres(a)
    \/ toggleCameraAngle
    \/ resetCamera
    \/ \E u \in UserViews : Orbit(u)
    \/ Frame

SpecCamera == Init /\ [][NextCamera]_vars

----------------------------------------------------------------------------
(* The cleanup function called as a plain function, any number of times *)

NextTeardown ==
    \/ \E l \in AllocationLists : ChangeAllocations(l)
    \/ \E dt \in FrameGaps : Tick(dt)
    \/ Frame
    \/ \E b \in BOOLEAN : Unmount(b)
    \/ \E b \in BOOLEAN : CleanupAgain(b)

SpecTeardown == Init /\ [][NextTeardown]_vars

\* the recommendation alone, over the form's inputs and every variation
NextRecommend ==
    \E formData \in FarmInputs, draws \in [1..4 -> RandomTenths] :
        Recommend(formData, draws)

\* the page before the first form is submitted
InitRecommend ==
    InitWith({[acres |-> Fin(0), cropAllocations |-> <<>>]}, InitialSeeds)

SpecRecommend == InitRecommend /\ [][NextRecommend]_vars

\* the land form alone
NextForm ==
    \/ \E value \in NextTexts(landForm.acres) : handleAcreChange(value)
    \/ TimeoutFires

SpecForm == Init /\ [][NextForm]_vars

\* a frame can be delivered dt ms from now: callbacks are registered, and
\* the frame and the clock value lie within the model's horizon
FrameDue(dt) ==
    /\ status \in {"mounted", "unmounted"}
    /\ rafQueue # <<>>
    /\ ambient.time <= MaxFrames
    /\ now + dt <= MaxTime

\* the browser delivers the next animation frame dt ms later
FrameAfter(dt) ==
    /\ FrameDue(dt)
    /\ now' = now + dt
    /\ Commit(Settle(RunFrame(BeginFrame(World), rafQueue, now + dt)))
    /\ UNCHANGED <<pageVars, acres, cropAllocations, cameraAngle, disposed,
                   changes, isLoading, refs>>

GrowthLists == BatchedLists \cup { <<Alloc("wheat", 100)>> }

\* rebuilds at any moment, and frames that keep coming while the clock
\* advances
NextGrowth ==
    \/ \E l \in GrowthLists : ChangeAllocations(l)
    \/ \E dt \in FrameGaps : FrameAfter(dt)

\* what a delivered frame does to the clock.  Of the steps of NextGrowth
\* only FrameAfter changes `now`, so a step of FrameClock that changes it is
\* a delivered frame, and FrameClock is enabled exactly when FrameAfter is.
FrameClock == \E dt \in FrameGaps : FrameDue(dt) /\ now' = now + dt

\* requestAnimationFrame callbacks are run by the browser for as long as the
\* page is shown: a frame that stays due is delivered
SpecGrowth == Init /\ [][NextGrowth]_vars /\ WF_now(FrameClock)

\* form submissions that change the acreage, the allocations, or both at once
NextBatched ==
    \/ \E a \in BatchedAcres : ChangeAcres(a)
    \/ \E l \in GrowthLists : ChangeAllocations(l)
    \/ \E a \in BatchedAcres, l \in GrowthLists : ChangeBoth(a, l)
    \/ \E dt \in FrameGaps : FrameAfter(dt)

SpecBatched == Init /\ [][NextBatched]_vars

----------------------------------------------------------------------------
(* Vocabulary of the properties *)

Live == status \in {"mounted", "unmounted"}

PositiveEntries(allocs) == SelectSeq(allocs, LAMBDA a : a.percentage > 0)

\* the scene's children of one kind, in scene order
SceneObjects(kind) == SelectSeq(scene, LAMBDA id : objects[id].kind = kind)

CropsOf(ids) == [i \in DOMAIN ids |-> objects[ids[i]].crop]

EntryCrops(allocs) == [i \in DOMAIN allocs |-> allocs[i].crop]

ValidAcres == IsFinite(acres) /\ acres.v > 0

InScene(id) == id \in SeqToSet(scene)

CropEntityIds == {id \in DOMAIN objects : objects[id].kind \in {"land", "plot", "crops"}}

----------------------------------------------------------------------------
(* C1..C10 *)

\* C1: after any sequence of acreage/allocation changes the crop groups in
\* the scene are exactly those of the latest props: one group per entry with
\* percentage > 0, in order, and none when the list is empty or acres is 0.
C1_GroupsAreLatestBuild ==
    (Live /\ IsFinite(acres) /\ acres.v >= 0) =>
        CropsOf(SceneObjects("crops")) =
            IF acres.v = 0 THEN <<>>
            ELSE EntryCrops(PositiveEntries(cropAllocations))

\* C2: after every crop rebuild the scene holds exactly one plot-section mesh
\* per positive-percentage entry of the latest list; plots of earlier builds
\* are gone.
C2_OnePlotPerEntry ==
    (Live /\ layoutRan /\ ValidAcres) =>
        CropsOf(SceneObjects("plot")) = EntryCrops(PositiveEntries(cropAllocations))

\* a growth closure whose groups have all been taken out of the scene while
\* its progress was below 1
ReplacedMidFlight(c) ==
    /\ closures[c].groups # <<>>
    /\ \A i \in DOMAIN closures[c].groups : ~InScene(closures[c].groups[i])
    /\ closures[c].reached < growDuration

\* C3: once a batch has been replaced while its growth was running, no frame
\* callback changes the scale or rotation of its instances and it never
\* enters the idle-sway loop.
C3_ReplacedBatchAbandoned ==
    [][\A c \in DOMAIN closures :
          ReplacedMidFlight(c) =>
             /\ \A i \in DOMAIN closures[c].groups :
                   objects'[closures[c].groups[i]].plants
                      = objects[closures[c].groups[i]].plants
             /\ closures'[c].loop # "sway"]_vars

\* C4: a land/crop entity that a rebuild has taken out of the scene has had
\* its GPU resources disposed, and after unmount every created land/crop
\* entity has.
C4_ReplacedEntitiesDisposed ==
    \A id \in CropEntityIds :
        (Live /\ (~InScene(id) \/ status = "unmounted")) =>
            Disposal("object", id) \in disposed

\* C5: an acres value that is <= 0 or not finite builds nothing: no land or
\* crop object with a zero, NaN or infinite size is ever constructed.
C5_NoDegenerateGeometry ==
    \A id \in CropEntityIds :
        IsFinite(objects[id].size) /\ objects[id].size.v > 0

\* the land mesh objects ever created
LandIds == {id \in DOMAIN objects : objects[id].kind = "land"}

\* C6: the scene never holds more than one land mesh, and no draw shows
\* more than one: a replacement removes the old land and adds the new one
\* within one step.
C6_AtMostOneLand ==
    /\ Len(SceneObjects("land")) <= 1
    /\ Len(drawn.lands) <= 1

\* a land has been replaced and a frame has drawn the replacement alone
C6_ReplacementDrawn ==
    /\ Cardinality(LandIds) >= 2
    /\ drawn.lands = SceneObjects("land")
    /\ \E id \in LandIds : drawn.lands = <<id>> /\ \A other \in LandIds : other <= id

\* the land the scene holds (0 when none) and what the latest build put in
\* cropObjectsRef
CurrentLand == GetObjectByName(World, "land")
BuiltPlots == SelectSeq(cropObjectsRef, LAMBDA id : objects[id].kind = "plot")
BuiltGroups == SelectSeq(cropObjectsRef, LAMBDA id : objects[id].kind = "crops")

LayoutDone ==
    /\ Live /\ layoutRan
    /\ CurrentLand # 0
    /\ IsFinite(objects[CurrentLand].size)

RECURSIVE SumWidths(_)
SumWidths(ids) ==
    IF ids = <<>> THEN 0 ELSE objects[Head(ids)].size.v + SumWidths(Tail(ids))

RECURSIVE SumPercentages(_)
SumPercentages(allocs) ==
    IF allocs = <<>> THEN 0 ELSE Head(allocs).percentage + SumPercentages(Tail(allocs))

\* C7: the widths of the sections a rebuild makes sum to
\* L * (sum of the positive percentages) / 100, L the land's size: no
\* renormalisation, so a list summing to 100 tiles exactly L and others tile
\* more or less.
C7_WidthsSumProportional ==
    LayoutDone =>
        SumWidths(BuiltPlots) =
            (objects[CurrentLand].size.v \div 100)
                * SumPercentages(PositiveEntries(cropAllocations))

\* scenario A rebuilt after a change: widths 0.30L, 0.40L, 0.20L, 0.10L
C7_ScenarioATiled ==
    /\ LayoutDone /\ changes >= 1
    /\ cropAllocations = ScenarioA
    /\ Len(BuiltPlots) = 4
    /\ LET L == objects[CurrentLand].size.v
       IN /\ [i \in 1..4 |-> objects[BuiltPlots[i]].size.v]
                = <<30 * (L \div 100), 40 * (L \div 100), 20 * (L \div 100),
                    10 * (L \div 100)>>
          /\ SumWidths(BuiltPlots) = L

LeftEdge(id) == objects[id].x.v - objects[id].size.v \div 2

\* C8: sections are built in input order, one plot and one group per entry
\* with percentage > 0 and none for the others; the first starts at -L/2
\* and each next one starts where the previous one ends.
C8_SectionsTileInOrder ==
    LayoutDone =>
        LET L == objects[CurrentLand].size.v
        IN /\ CropsOf(BuiltPlots) = EntryCrops(PositiveEntries(cropAllocations))
           /\ CropsOf(BuiltGroups) = EntryCrops(PositiveEntries(cropAllocations))
           /\ \A i \in DOMAIN BuiltPlots :
                 /\ objects[BuiltGroups[i]].x = objects[BuiltPlots[i]].x
                 /\ objects[BuiltGroups[i]].size = objects[BuiltPlots[i]].size
                 /\ LeftEdge(BuiltPlots[i]) =
                       IF i = 1 THEN -(L \div 2)
                       ELSE LeftEdge(BuiltPlots[i - 1]) + objects[BuiltPlots[i - 1]].size.v

\* a list with a zero and a negative entry, rebuilt after a change: two
\* adjacent cotton sections and nothing for the skipped entries
C8_SkippedEntriesLeaveNoGap ==
    /\ LayoutDone /\ changes >= 1
    /\ cropAllocations = SparseList
    /\ CropsOf(BuiltPlots) = <<"cotton", "cotton">>
    /\ LeftEdge(BuiltPlots[2]) = LeftEdge(BuiltPlots[1]) + objects[BuiltPlots[1]].size.v

GroupIds == {id \in DOMAIN objects : objects[id].kind = "crops"}

LoopRank(loop) ==
    CASE loop = "grow" -> 1
      [] loop = "sway" -> 2
      [] OTHER -> 3

\* every crop group belongs to a growth closure from the step that made it,
\* and nothing sways before its batch's progress is 1
C9_SwayOnlyAfterGrowth ==
    Live =>
      /\ \A id \in GroupIds :
            /\ objects[id].gen \in DOMAIN closures
            /\ id \in SeqToSet(closures[objects[id].gen].groups)
            /\ \A i \in DOMAIN objects[id].plants :
                  objects[id].plants[i].swayedAt >= 0 =>
                      closures[objects[id].gen].reached = growDuration
      /\ \A c \in DOMAIN closures :
            closures[c].loop = "sway" => closures[c].reached = growDuration

\* C9: every batch goes Planted -> Growing -> Idle in that order and never
\* backwards: growth starts in the step that creates the batch, sway starts
\* only once progress is 1 for the whole batch, and a batch whose progress
\* has reached 1 never grows again.
C9_GrowthStateMachine ==
    /\ []C9_SwayOnlyAfterGrowth
    /\ [][\A c \in DOMAIN closures :
             /\ closures[c].reached = growDuration
                   => closures'[c].reached = growDuration
             /\ LoopRank(closures'[c].loop) >= LoopRank(closures[c].loop)]_vars

\* one batch sways (its plants rotated) while a later batch is still growing
C9_IdleBesideGrowing ==
    \E c, d \in DOMAIN closures :
        /\ closures[c].loop = "sway"
        /\ \E i \in DOMAIN closures[c].groups :
              \E j \in DOMAIN objects[closures[c].groups[i]].plants :
                  objects[closures[c].groups[i]].plants[j].swayedAt >= 0
        /\ closures[d].loop = "grow"
        /\ closures[d].reached > 0

\* C10: an instance's X and Z scale stay at the value set at creation; its Y
\* scale is 0 while its batch's elapsed time is 0 and equals the base scale
\* once elapsed >= growDuration, from then on.
C10_ScaleEndpoints ==
    Live =>
      \A id \in GroupIds :
        \A i \in DOMAIN objects[id].plants :
          LET p == objects[id].plants[i]
              reached == closures[objects[id].gen].reached
          IN /\ p.sx = p.base /\ p.sz = p.base
             /\ reached = 0 => p.sy = Rat(0, 1)
             /\ reached = growDuration => p.sy = Rat(p.base, 1)

\* a plant at full height after having been seen half grown (overshooting)
C10_FullyGrown ==
    \E id \in GroupIds :
        /\ closures[objects[id].gen].reached = growDuration
        /\ closures[objects[id].gen].startTime + growDuration < now
        /\ \E i \in DOMAIN objects[id].plants :
              /\ objects[id].plants[i].sy = Rat(objects[id].plants[i].base, 1)
              /\ objects[id].plants[i].base # 100

----------------------------------------------------------------------------
(* C11..C20 *)

\* the entries for one crop type, with their places in the list
EntriesFor(allocs, crop) ==
    {<<i, allocs[i]>> : i \in {j \in DOMAIN allocs : allocs[j].crop = crop}}

\* C11: a rebuild that changes only some crop types leaves the batches of
\* the other crop types in place: a group in the scene whose crop's entry is
\* the same before and after an allocation change stays in the scene, and the
\* growth it belongs to is not started again.
C11_UntouchedBatchesKept ==
    [][\A id \in GroupIds :
          ( /\ InScene(id)
            /\ acres' = acres
            /\ cropAllocations' # cropAllocations
            /\ EntriesFor(cropAllocations', objects[id].crop)
                  = EntriesFor(cropAllocations, objects[id].crop) )
          => /\ id \in SeqToSet(scene')
             /\ closures'[objects[id].gen].startTime
                   = closures[objects[id].gen].startTime]_vars

\* C12: on every frame tick each cloud moves by its speed, wrapping to
\* x = -1000 once its x exceeds 1000, and the water time goes up by 0.01,
\* whether or not a growth animation is running.
C12_AmbientAdvancesEveryFrame ==
    [][ambient'.time # ambient.time =>
          /\ ambient'.time = ambient.time + 1
          /\ \A i \in DOMAIN ambient.clouds :
                ambient'.clouds[i].x =
                    IF ambient.clouds[i].x + ambient.clouds[i].speed > 100000
                    THEN -100000
                    ELSE ambient.clouds[i].x + ambient.clouds[i].speed]_vars

\* C13: after unmount no render, growth or sway callback is scheduled any
\* more.
C13_NothingScheduledAfterUnmount ==
    status = "unmounted" => rafQueue = <<>>

\* C14: the cleanup never throws, however often it is run.
C14_TeardownNeverThrows ==
    status # "threw"

\* C15: when the rendering context cannot be created, no scene, camera or
\* canvas stays referenced or attached.
C15_NoPartialSceneOnFailure ==
    status = "nocontext" =>
        /\ ~refs.scene /\ ~refs.camera /\ ~refs.canvas
        /\ scene = <<>>

\* the names of the scene's children
SceneNames == {objects[id].name : id \in SeqToSet(scene)}

\* C16: with a container and a working rendering context the setup phase
\* completes: the whole environment is in the scene, the frame loop has been
\* started and the loading signal is false, for good.
C16_SetupCompletes ==
    status # "nocontext" =>
        /\ SeqToSet(EnvAfterTrees) \subseteq SceneNames
        /\ ambient.time >= 1
        /\ isLoading = FALSE

\* the presets: top (0, 2.2 L, 0.001), side (0, 0.3 L, 2.2 L),
\* angled (L, 0.9 L, L)
PresetPosition(mode, L) ==
    CASE mode = "top" -> <<Fin(0), NumScale(L, 22, 10), Fin(10000)>>
      [] mode = "side" -> <<Fin(0), NumScale(L, 3, 10), NumScale(L, 22, 10)>>
      [] mode = "angled" -> <<L, NumScale(L, 9, 10), L>>

ViewModes == {"angled", "top", "side"}

\* the land mesh among the children sc (0 when none), objs the objects
LandIn(objs, sc) ==
    LET lands == {i \in DOMAIN sc : objs[sc[i]].kind = "land"}
    IN IF lands = {} THEN 0 ELSE sc[CHOOSE i \in lands : \A j \in lands : i <= j]

\* C17: each view-mode switch advances the mode in the cycle
\* angled -> top -> side -> angled, and right after it the camera is at the
\* new mode's preset position for the size of the land in the scene.
C17_SwitchMovesCameraToPreset ==
    [][cameraAngle' # cameraAngle =>
          /\ <<cameraAngle, cameraAngle'>> \in
                {<<"angled", "top">>, <<"top", "side">>, <<"side", "angled">>}
          /\ LandIn(objects', scene') # 0 =>
                camera'.position =
                    PresetPosition(cameraAngle', objects'[LandIn(objects', scene')].size)]_vars

SizeFromAcres == IF Falsy(acres) THEN Fin(100000000) ELSE LandSizeOf(acres)

\* reset applied once more changes nothing
C18_ResetIdempotent ==
    status = "mounted" =>
        ResetView(ResetView(camera, acres, cameraAngle), acres, cameraAngle)
            = ResetView(camera, acres, cameraAngle)

SampleSizes == {LandSizeOf(a) : a \in {Fin(1), Fin(4), Fin(9)}}

\* recomputing from the current camera state gives what recomputing from
\* the initial one gives: the preset, looking at the origin
C19_PresetIgnoresCamera ==
    \A mode \in ViewModes, L \in SampleSizes :
        /\ updateCameraPosition(camera, mode, L).position = PresetPosition(mode, L)
        /\ updateCameraPosition(camera, mode, L).lookAt = Origin

\* C19: the camera position is a function of land size and view mode alone
\* (the three presets, looking at the origin): whenever a land is built the
\* camera is at the preset for its size and the mode, whatever the camera
\* state was before.
C19_CameraIsPureFunction ==
    /\ []C19_PresetIgnoresCamera
    /\ [][LandIds' # LandIds =>
            /\ camera'.position =
                  PresetPosition(cameraAngle', objects'[LandIn(objects', scene')].size)
            /\ camera'.lookAt = Origin]_vars

\* the user has panned (the orbit target is off the origin) and the camera
\* has been recomputed since: it is at the side preset and looks at the origin
C19_RecomputedAfterPan ==
    /\ camera.target # Origin
    /\ cameraAngle = "side"
    /\ CurrentLand # 0
    /\ IsFinite(objects[CurrentLand].size)
    /\ camera.position = PresetPosition("side", objects[CurrentLand].size)
    /\ camera.lookAt = Origin

\* the batch of group id is in its idle-sway loop
Idle(id) == closures[objects[id].gen].loop = "sway"

\* sin(time * swaySpeed + swayPhase) * swayAmplitude at clock value t
ExpectedRotation(plant, t) ==
    LET sine == Sin((t * plant.swaySpeed) \div 1000 + plant.swayOffset)
    IN Rat(sine.n * plant.swayAmount, sine.d)

\* every rotation applied so far is the sine formula at the time it was
\* applied, and within the plant's amplitude
C20_SwayBounded ==
    Live =>
      \A id \in GroupIds :
        \A i \in DOMAIN objects[id].plants :
          LET plant == objects[id].plants[i]
          IN /\ Abs(plant.rotZ.n) <= plant.swayAmount * plant.rotZ.d
             /\ plant.swayedAt >= 0 =>
                   plant.rotZ = ExpectedRotation(plant, plant.swayedAt)

\* C20: in Idle, every frame sets each instance's rotationZ to
\* sin(time * swaySpeed + swayPhase) * swayAmplitude, so it stays within the
\* amplitude; nothing but rotationZ changes (scale, position and yaw stay);
\* and every frame delivered does it, for as long as the group is in the
\* scene.
C20_IdleSwayEveryFrame ==
    /\ []C20_SwayBounded
    /\ [][\A id \in GroupIds :
             Idle(id) =>
               \A i \in DOMAIN objects[id].plants :
                 /\ objects'[id].plants[i] =
                       [objects[id].plants[i] EXCEPT
                           !.rotZ = objects'[id].plants[i].rotZ,
                           !.swayedAt = objects'[id].plants[i].swayedAt]
                 /\ (InScene(id) /\ ambient'.time # ambient.time) =>
                       /\ objects'[id].plants[i].swayedAt = now
                       /\ objects'[id].plants[i].rotZ =
                             ExpectedRotation(objects[id].plants[i], now)]_vars

\* an idle plant in the scene, tilted by the sway of the current frame
C20_PlantTilted ==
    \E id \in GroupIds :
        /\ Idle(id) /\ InScene(id)
        /\ \E i \in DOMAIN objects[id].plants :
              /\ objects[id].plants[i].swayedAt = now
              /\ now > closures[objects[id].gen].startTime + growDuration
              /\ objects[id].plants[i].rotZ.n # 0
              /\ objects[id].plants[i].sy = Rat(objects[id].plants[i].base, 1)

----------------------------------------------------------------------------
(* One land size for the land, the layout and the camera reset *)

\* sqrt(acres) * 208.7 * 0.055 in units of 1e-7, for a perfect square
ExpectedSize(a) == Fin(ISqrt(a.v, 0) * 114785000)

\* C21: for every acres > 0 the land in the scene has size
\* sqrt(acres) * 208.7 * 0.055, the crop layout is laid out over exactly
\* that size (each section is its share of it and the first starts at minus
\* half of it), and the camera reset computes the same value.
C21_OneLandSize ==
    (status = "mounted" /\ ValidAcres) =>
        /\ CurrentLand # 0
        /\ objects[CurrentLand].size = ExpectedSize(acres)
        /\ ResetLandSize(acres) = ExpectedSize(acres)
        /\ LayoutDone =>
              /\ \A i \in DOMAIN BuiltPlots :
                    objects[BuiltPlots[i]].size =
                        NumScale(ExpectedSize(acres),
                                 PositiveEntries(cropAllocations)[i].percentage, 100)
              /\ BuiltPlots # <<>> =>
                    2 * LeftEdge(BuiltPlots[1]) = -ExpectedSize(acres).v

\* the acreage was changed to 1: a second land of size 11.4785 stands in the
\* scene and the rebuilt wheat section spans it
C21_RebuiltForOneAcre ==
    /\ status = "mounted" /\ acres = Fin(1) /\ LayoutDone
    /\ Cardinality(LandIds) >= 2
    /\ objects[CurrentLand].size = Fin(114785000)
    /\ SumWidths(BuiltPlots) = 114785000
    /\ ResetLandSize(acres) = objects[CurrentLand].size

----------------------------------------------------------------------------
(* The environment is made once *)

\* the decorations of a completed setup, in the order they are added
EnvironmentNames == EnvBeforeRenderer \o EnvBeforeTrees \o EnvAfterTrees

\* C22: the environment decorations are generated once, at scene creation:
\* in every state after a completed setup the environment entities in the
\* scene are the ones the mount effect added, each once and in its place,
\* whatever land rebuilds, crop rebuilds and view switches have happened.
C22_EnvironmentMadeOnce ==
    Live =>
        /\ SceneObjects("env") = [i \in DOMAIN EnvironmentNames |-> i]
        /\ [i \in DOMAIN EnvironmentNames |-> objects[i].name] = EnvironmentNames
        /\ \A id \in DOMAIN objects :
              objects[id].kind = "env" => id \in DOMAIN EnvironmentNames

\* the view was switched and the acreage changed: three lands and two crop
\* batches have been built, and the environment is the one made at mount
C22_EnvironmentAfterRebuilds ==
    /\ status = "mounted"
    /\ cameraAngle # "angled"
    /\ Cardinality(LandIds) >= 3
    /\ Len(closures) >= 2
    /\ SceneObjects("env") = [i \in DOMAIN EnvironmentNames |-> i]

----------------------------------------------------------------------------
(* Growth completes *)

\* closure indices that can exist
BatchIndices == 1..(MaxChanges + 1)

MinGap == CHOOSE g \in FrameGaps : \A h \in FrameGaps : g <= h

\* frames still to be delivered within the model's horizon
FramesLeft == MaxFrames + 1 - ambient.time

\* batch c is growing, and the horizon leaves room for the frames it needs
\* even when they come at the shortest gap
GrowingWithRoom(c) ==
    /\ Live
    /\ c \in DOMAIN closures
    /\ closures[c].loop = "grow"
    /\ closures[c].startTime + growDuration <= MaxTime
    /\ FramesLeft * MinGap >= closures[c].startTime + growDuration - now

\* batch c has reached progress = 1 and its loop is the sway loop
GrownAndIdle(c) ==
    /\ c \in DOMAIN closures
    /\ closures[c].reached = growDuration
    /\ closures[c].loop = "sway"

\* a later rebuild has started its own batch
Superseded(c) == c < Len(closures)

\* C23: while frames keep being delivered and the clock keeps advancing,
\* every growing batch that is not replaced by a later rebuild eventually
\* reaches progress = 1 and enters Idle (its growth loop stops and the sway
\* loop takes over once growDuration has elapsed since its creation).
C23_GrowthCompletes ==
    \A c \in BatchIndices :
        GrowingWithRoom(c) ~> (GrownAndIdle(c) \/ Superseded(c))

\* the latest batch, built by a rebuild after mount, is fully grown and idle
C23_RebuiltBatchIdle ==
    /\ status = "mounted"
    /\ Len(closures) >= 2
    /\ GrownAndIdle(Len(closures))
    /\ closures[Len(closures)].groups # <<>>
    /\ now >= growDuration

----------------------------------------------------------------------------
(* The draw of a frame *)

\* a step in which the browser delivered a frame: the render callback ran
\* and advanced the water's time uniform
FrameDelivered == ambient'.time # ambient.time

\* C24: in every frame exactly one draw is submitted, and it shows the growth
\* and sway state the scene has when that frame's callbacks are done (the
\* draw comes after the frame's growth and sway updates).
C24_DrawAfterUpdates ==
    [][FrameDelivered => (drawn'.frames = 1 /\ drawn'.current)]_vars

----------------------------------------------------------------------------
(* Acreage and allocations changed together *)

\* the latest build laid its sections out over a land of size L
LaidOutOver(L) ==
    /\ Len(BuiltPlots) = Len(PositiveEntries(cropAllocations))
    /\ \A i \in DOMAIN BuiltPlots :
          objects[BuiltPlots[i]].size =
              NumScale(L, PositiveEntries(cropAllocations)[i].percentage, 100)
    /\ BuiltPlots # <<>> => 2 * LeftEdge(BuiltPlots[1]) = -L.v

\* the scene as it is, without its land
WithoutLand ==
    [World EXCEPT !.scene = SelectSeq(@, LAMBDA id : objects[id].kind # "land")]

\* the land in the scene has the size of the current acreage and the layout
\* was computed from it
LayoutFromLandOfAcres ==
    /\ LayoutDone
    /\ objects[CurrentLand].size = LandSizeOf(acres)
    /\ LaidOutOver(objects[CurrentLand].size)

\* C25: when acreage and allocations change in one update, the crop layout
\* is computed from the land built for the new acreage, never from the land
\* it replaced; and a crop rebuild that finds no land in the scene creates
\* no object, starts no growth batch and does not throw.
C25_LayoutFromNewLand ==
    /\ [][(acres' # acres /\ cropAllocations' # cropAllocations
              /\ ValidAcres' /\ cropAllocations' # <<>>)
            => (CurrentLand' \notin DOMAIN objects /\ LayoutFromLandOfAcres')]_vars
    /\ [](status = "mounted" =>
            \A l \in GrowthLists :
                LET w == CropEffect(WithoutLand, Fin(1), l, now)
                IN /\ w.status = "mounted"
                   /\ w.objects = objects
                   /\ w.closures = closures
                   /\ w.cropObjectsRef = <<>>
                   /\ ~w.layoutRan)

\* one update changed the acreage from 4 to 1 and the list to corn 60,
\* soybean 30: the sections are 60% and 30% of the new land's 11.4785
C25_BatchedRebuild ==
    /\ status = "mounted" /\ changes = 1
    /\ acres = Fin(1) /\ cropAllocations \in BatchedLists
    /\ Cardinality(LandIds) = 2
    /\ LayoutDone
    /\ [i \in DOMAIN BuiltPlots |-> objects[BuiltPlots[i]].size.v]
          = <<68871000, 34435500>>

----------------------------------------------------------------------------
(* The shared animating flag *)

\* a crop group in the scene whose batch has not reached progress = 1
StillGrowing(id) ==
    /\ InScene(id)
    /\ closures[objects[id].gen].loop = "grow"
    /\ closures[objects[id].gen].reached < growDuration

\* C26: the shared animating flag is true in every state in which some batch
\* in the scene is still growing (progress < 1), whatever the interleaving
\* of rebuilds and frame callbacks.
C26_FlagCoversGrowth ==
    Live => ((\E id \in GroupIds : StillGrowing(id)) => isAnimatingRef)

----------------------------------------------------------------------------
(* What a view-mode switch touches *)

\* C27: a view-mode switch changes only the camera: the land in the scene is
\* the same object before and after (it is not removed and rebuilt), and the
\* crop sections and their instances are left as they were.
C27_SwitchKeepsLand ==
    [][cameraAngle' # cameraAngle =>
          /\ CurrentLand' = CurrentLand
          /\ objects' = objects
          /\ SceneObjects("plot")' = SceneObjects("plot")
          /\ SceneObjects("crops")' = SceneObjects("crops")]_vars

----------------------------------------------------------------------------
(* Plants and the footprint of their section *)

\* plant p of a group of width w on land of size L stands within the
\* section: |x| <= w / 2 and |z| <= L / 2 (x and z are relative to the
\* section's centre)
InFootprint(p, w, L) == 2 * Abs(p.x) <= w /\ 2 * Abs(p.z) <= L

\* C28: every plant instance created for a section of width w on land of
\* size L lies inside the section's footprint, so none stands in a
\* neighbouring section or off the land.
C28_PlantsInsideSection ==
    LayoutDone =>
        \A id \in SeqToSet(BuiltGroups) :
            \A i \in DOMAIN objects[id].plants :
                InFootprint(objects[id].plants[i], objects[id].size.v,
                            objects[CurrentLand].size.v)

----------------------------------------------------------------------------
(* The recommended allocation *)

\* C29: for every farm input and every outcome of the random variation the
\* recommended allocation has four percentages, each within 0..100, that sum
\* to exactly 100.
C29_PercentagesValid ==
    recommendation # <<>> =>
        /\ Len(recommendation) = 4
        /\ \A i \in DOMAIN recommendation :
              recommendation[i].percentage \in 0..100
        /\ SumPercentages(recommendation) = 100

----------------------------------------------------------------------------
(* The auto-submitting land form *)

\* C30: typing a new valid value cancels the pending auto-submit of the value
\* typed before it: at most one auto-submit is pending, and while the text of
\* the input is a valid value the pending one is for that value (so a burst
\* of keystrokes ends in one onSubmit, with the last value typed).
C30_OnlyLastValuePending ==
    LET acreValue == parseFloat(landForm.acres)
    IN /\ Len(landForm.timers) <= 1
       /\ (landForm.timers # <<>> /\ acreValue.k = "fin" /\ acreValue.v > 0)
             => landForm.timers = <<acreValue.v>>
====
